---- MODULE Spec2Model ----
(***************************************************************************)
(* Model of the web-collector backend: the in-memory BookmarkStore         *)
(* (a slice guarded by a sync.RWMutex), the gin handlers of                *)
(* /api/v1/bookmarks that call it, and the probes /health and              *)
(* /api/v1/ping.  Every request is served by its own goroutine; the        *)
(* goroutines interleave at the granularity of the statements of the       *)
(* store methods.  Spec is the program with its history variables,         *)
(* SpecSeq the program serving one request after another, SpecLive the     *)
(* program under fair scheduling.                                          *)
(***************************************************************************)
EXTENDS Integers, Sequences, FiniteSets, TLC

\* ------------------------------------------------------------------ bounds
\* Number of goroutines that serve requests at the same time.
NumProcs == 2
\* Number of requests to the bookmark routes served in one behaviour.
MaxOps == 4
\* Only the first MaxConcOps requests may arrive while another is being
\* served; the later ones arrive one at a time.
MaxConcOps == 2

\* ------------------------------------------------------- program constants
\* nextID of a freshly constructed store.
SeedNextID == 4
\* Status codes used by the handlers (net/http).
StatusOK == 200
StatusCreated == 201
StatusBadRequest == 400
StatusNotFound == 404
StatusInternalServerError == 500

Procs == 1 .. NumProcs
NoProc == 0

\* --------------------------------------------------------------- the data
\* model.Bookmark; CreatedAt is a reading of the clock (0 is the zero time).
Bookmark(id, title, url, t) ==
    [ID |-> id, Title |-> title, URL |-> url, CreatedAt |-> t]

\* The zero value model.Bookmark{}.
ZeroBookmark == Bookmark("", "", "", 0)

\* One decimal digit, as fmt.Sprintf("%d", d) prints it.
Digit(d) ==
    CASE d = 0 -> "0" [] d = 1 -> "1" [] d = 2 -> "2" [] d = 3 -> "3"
      [] d = 4 -> "4" [] d = 5 -> "5" [] d = 6 -> "6" [] d = 7 -> "7"
      [] d = 8 -> "8" [] d = 9 -> "9"

\* fmt.Sprintf("%d", n) for n >= 0: the decimal digits, no leading zero.
RECURSIVE Itoa(_)
Itoa(n) == IF n < 10 THEN Digit(n) ELSE Itoa(n \div 10) \o Digit(n % 10)

\* The sample data of NewBookmarkStore, stamped with three clock readings
\* (the third title, which the source writes in Chinese, is given in ASCII).
SeedBookmarks(t1, t2, t3) ==
    << Bookmark("1", "Google", "https://google.com", t1),
       Bookmark("2", "GitHub", "https://github.com", t2),
       Bookmark("3", "Go docs", "https://go.dev/doc/", t3) >>

SeedIDs == {"1", "2", "3"}

\* ------------------------------------------------------------- the inputs
\* The :id path parameter: a seed id and the first id Create assigns; a
\* GET is also tried with a string that reads as the number 4 but is not
\* what fmt.Sprintf prints for it.
ReqIDs == {"2", "4"}
GetIDs == ReqIDs \cup {"04"}
ReqTitles == {"", "T"}
ReqURLs == {"", "U"}

\* A request body: wf says whether it is well-formed JSON of the right
\* types; a field that is absent decodes to "".
Body(wf, title, url) == [wf |-> wf, Title |-> title, URL |-> url]
NoBody == Body(FALSE, "", "")
Bodies == {NoBody} \cup {Body(TRUE, t, u) : t \in ReqTitles, u \in ReqURLs}

\* c.ShouldBindJSON(&req) for model.CreateBookmarkRequest: err == nil.
\* binding:"required" rejects a field left at its zero value.
BindCreate(body) == body.wf /\ body.Title # "" /\ body.URL # ""

\* c.ShouldBindJSON(&req) for model.UpdateBookmarkRequest: err == nil.
BindUpdate(body) == body.wf

\* ---------------------------------------------------------------- the state
VARIABLES
    arr,        \* backing array of s.bookmarks (its length is the capacity)
    len,        \* len(s.bookmarks)
    nextID,     \* s.nextID
    wHolder,    \* s.mu: the goroutine that holds or awaits the write lock
    readers,    \* s.mu: the goroutines that hold the read lock
    clock,      \* the last reading of time.Now()
    pc,         \* where each goroutine is
    req,        \* the request each goroutine serves
    loc,        \* the locals of the handler and of the store method
    ops         \* requests to the bookmark routes accepted so far

progVars == << arr, len, nextID, wHolder, readers, clock, pc, req, loc, ops >>

\* s.bookmarks, as the slice header (arr, len) shows it.
Store == SubSeq(arr, 1, len)

IDsOf(s) == {s[k].ID : k \in 1 .. Len(s)}

NoReq == [h |-> "none", id |-> "", body |-> NoBody]
NoLoc == [i |-> 0, n |-> 0, b |-> ZeroBookmark, found |-> FALSE,
          result |-> << >>, err |-> FALSE]

Zeros(n) == [k \in 1 .. n |-> ZeroBookmark]

\* Set one goroutine's pc / locals.
Goto(p, l) == pc' = [pc EXCEPT ![p] = l]
SetLoc(p, r) == loc' = [loc EXCEPT ![p] = r]

\* --------------------------------------------------------------- Init
\* Mutant of ProgInit: nextID starts at the number of samples, not after it.
ProgInit_NextIDCount ==
    /\ arr = SeedBookmarks(1, 2, 3)
    /\ clock = 3
    /\ len = 3
    /\ nextID = 3
    /\ wHolder = NoProc
    /\ readers = {}
    /\ pc = [p \in Procs |-> "idle"]
    /\ req = [p \in Procs |-> NoReq]
    /\ loc = [p \in Procs |-> NoLoc]
    /\ ops = 0

\* var store = NewBookmarkStore(): the three samples, each stamped by its
\* own time.Now() (three successive readings), nextID 4, the mutex free,
\* no request in progress.
ProgInit ==
    /\ arr = SeedBookmarks(1, 2, 3)
    /\ clock = 3
    /\ len = 3
    /\ nextID = SeedNextID
    /\ wHolder = NoProc
    /\ readers = {}
    /\ pc = [p \in Procs |-> "idle"]
    /\ req = [p \in Procs |-> NoReq]
    /\ loc = [p \in Procs |-> NoLoc]
    /\ ops = 0

\* --------------------------------------------------------- the handlers
\* gin starts a goroutine per request: request r is accepted and its
\* goroutine goes to label l.  The goroutines are interchangeable, so the
\* free one of least index takes the request.
Busy == {q \in Procs : pc[q] # "idle"}

Accept(p, r, l) ==
    /\ pc[p] = "idle"
    /\ \A q \in Procs : q < p => pc[q] # "idle"
    /\ ops < MaxOps
    /\ Busy # {} => ops < MaxConcOps
    /\ ops' = ops + 1
    /\ req' = [req EXCEPT ![p] = r]
    /\ Goto(p, l)

\* handleGetBookmarks: calls store.GetAll().
HandleGetBookmarks(p) ==
    /\ Accept(p, [h |-> "GetBookmarks", id |-> "", body |-> NoBody], "rlock")
    /\ UNCHANGED << arr, len, nextID, wHolder, readers, clock, loc >>

\* handleGetBookmark: id := c.Param("id"); calls store.GetByID(id).
HandleGetBookmark(p) ==
    /\ \E id \in GetIDs :
          Accept(p, [h |-> "GetBookmark", id |-> id, body |-> NoBody], "rlock")
    /\ UNCHANGED << arr, len, nextID, wHolder, readers, clock, loc >>

\* Mutant of HandleCreateBookmark: the return after the 400 is missing, so
\* the handler goes on to call store.Create.
HandleCreateBookmark_NoReturn(p) ==
    /\ \E body \in Bodies :
          /\ Accept(p, [h |-> "CreateBookmark", id |-> "", body |-> body], "lock")
          /\ SetLoc(p, [NoLoc EXCEPT !.err = ~BindCreate(body)])
    /\ UNCHANGED << arr, len, nextID, wHolder, readers, clock >>

\* handleCreateBookmark: binds the body; on an error answers 400 and
\* returns, else calls store.Create(req.Title, req.URL).
HandleCreateBookmark(p) ==
    /\ \E body \in Bodies :
          /\ Accept(p, [h |-> "CreateBookmark", id |-> "", body |-> body],
                    IF BindCreate(body) THEN "lock" ELSE "respond")
          /\ SetLoc(p, [NoLoc EXCEPT !.err = ~BindCreate(body)])
    /\ UNCHANGED << arr, len, nextID, wHolder, readers, clock >>

\* Mutant of HandleUpdateBookmark: the handler looks the id up before it
\* binds the body, and answers 404 when it is not there.
HandleUpdateBookmark_LookupFirst(p) ==
    /\ \E id \in ReqIDs, body \in Bodies :
          /\ Accept(p, [h |-> "UpdateBookmark", id |-> id, body |-> body],
                    IF BindUpdate(body) THEN "lock" ELSE "respond")
          /\ SetLoc(p, [NoLoc EXCEPT !.err = ~BindUpdate(body)
                                             /\ id \in IDsOf(Store)])
    /\ UNCHANGED << arr, len, nextID, wHolder, readers, clock >>

\* handleUpdateBookmark: id := c.Param("id"); binds the body; on an error
\* answers 400 and returns, else calls store.Update(id, req.Title, req.URL).
HandleUpdateBookmark(p) ==
    /\ \E id \in ReqIDs, body \in Bodies :
          /\ Accept(p, [h |-> "UpdateBookmark", id |-> id, body |-> body],
                    IF BindUpdate(body) THEN "lock" ELSE "respond")
          /\ SetLoc(p, [NoLoc EXCEPT !.err = ~BindUpdate(body)])
    /\ UNCHANGED << arr, len, nextID, wHolder, readers, clock >>

\* handleDeleteBookmark: id := c.Param("id"); calls store.Delete(id).
HandleDeleteBookmark(p) ==
    /\ \E id \in ReqIDs :
          Accept(p, [h |-> "DeleteBookmark", id |-> id, body |-> NoBody], "lock")
    /\ UNCHANGED << arr, len, nextID, wHolder, readers, clock, loc >>

\* GET /health and GET /api/v1/ping: the handler is a closure that only
\* writes its answer.  It touches nothing the goroutines share, so its
\* steps commute with every step of the others: it is served while the
\* others are idle.
Probes == {"Health", "Ping"}

AcceptProbe(p, h) ==
    /\ pc[p] = "idle"
    /\ Busy = {}
    /\ \A q \in Procs : q < p => pc[q] # "idle"
    /\ req' = [req EXCEPT ![p] = [h |-> h, id |-> "", body |-> NoBody]]
    /\ Goto(p, "respond")
    /\ UNCHANGED << arr, len, nextID, wHolder, readers, clock, loc, ops >>

HandleHealth(p) == AcceptProbe(p, "Health")

HandlePing(p) == AcceptProbe(p, "Ping")

\* ------------------------------------------------------------ s.mu
\* The first statement of the store method a handler calls, once the
\* lock is held.
Entry(h) ==
    CASE h = "GetBookmarks" -> "ga_make"
      [] h = "GetBookmark" -> "gb_range"
      [] h = "CreateBookmark" -> "c_new"
      [] h = "UpdateBookmark" -> "u_range"
      [] h = "DeleteBookmark" -> "d_range"

\* Mutant of RLock: the reader does not wait for the writer.
RLock_IgnoresWriter(p) ==
    /\ pc[p] = "rlock"
    /\ readers' = readers \cup {p}
    /\ Goto(p, Entry(req[p].h))
    /\ UNCHANGED << arr, len, nextID, wHolder, clock, req, loc, ops >>

\* s.mu.RLock(): blocks while a writer holds or awaits the lock.
RLock(p) ==
    /\ pc[p] = "rlock"
    /\ wHolder = NoProc
    /\ readers' = readers \cup {p}
    /\ Goto(p, Entry(req[p].h))
    /\ UNCHANGED << arr, len, nextID, wHolder, clock, req, loc, ops >>

\* Mutant of LockPending: a writer does not wait for the writer inside.
LockPending_NoExclusion(p) ==
    /\ pc[p] = "lock"
    /\ wHolder' = p
    /\ Goto(p, "lockwait")
    /\ UNCHANGED << arr, len, nextID, readers, clock, req, loc, ops >>

\* s.mu.Lock(), first half: one writer at a time gets past the writers'
\* mutex and announces itself, which keeps new readers out.
LockPending(p) ==
    /\ pc[p] = "lock"
    /\ wHolder = NoProc
    /\ wHolder' = p
    /\ Goto(p, "lockwait")
    /\ UNCHANGED << arr, len, nextID, readers, clock, req, loc, ops >>

\* Mutant of LockAcquire: the writer does not wait for the readers inside.
LockAcquire_NoWait(p) ==
    /\ pc[p] = "lockwait"
    /\ Goto(p, Entry(req[p].h))
    /\ UNCHANGED << arr, len, nextID, wHolder, readers, clock, req, loc, ops >>

\* s.mu.Lock(), second half: waits until the readers inside have left.
LockAcquire(p) ==
    /\ pc[p] = "lockwait"
    /\ readers = {}
    /\ Goto(p, Entry(req[p].h))
    /\ UNCHANGED << arr, len, nextID, wHolder, readers, clock, req, loc, ops >>

\* defer s.mu.RUnlock(): runs as the method returns.
RUnlock(p) ==
    /\ pc[p] = "runlock"
    /\ readers' = readers \ {p}
    /\ Goto(p, "respond")
    /\ UNCHANGED << arr, len, nextID, wHolder, clock, req, loc, ops >>

\* defer s.mu.Unlock(): runs as the method returns.
Unlock(p) ==
    /\ pc[p] = "unlock"
    /\ wHolder' = NoProc
    /\ Goto(p, "respond")
    /\ UNCHANGED << arr, len, nextID, readers, clock, req, loc, ops >>

\* ------------------------------------------------------- BookmarkStore.GetAll
\* result := make([]model.Bookmark, len(s.bookmarks))
GetAllMake(p) ==
    /\ pc[p] = "ga_make"
    /\ SetLoc(p, [loc[p] EXCEPT !.n = len, !.i = 1, !.result = Zeros(len)])
    /\ Goto(p, "ga_copy")
    /\ UNCHANGED << arr, len, nextID, wHolder, readers, clock, req, ops >>

\* copy(result, s.bookmarks): min(len(result), len(s.bookmarks)) elements,
\* one after the other; then return result.
GetAllCopy(p) ==
    /\ pc[p] = "ga_copy"
    /\ LET i == loc[p].i IN
         IF i <= loc[p].n /\ i <= len
         THEN /\ SetLoc(p, [loc[p] EXCEPT !.result[i] = arr[i], !.i = i + 1])
              /\ UNCHANGED pc
         ELSE /\ Goto(p, "runlock")
              /\ UNCHANGED loc
    /\ UNCHANGED << arr, len, nextID, wHolder, readers, clock, req, ops >>

\* ------------------------------------------------------ BookmarkStore.GetByID
\* for _, b := range s.bookmarks: the range expression is evaluated once.
GetByIDRange(p) ==
    /\ pc[p] = "gb_range"
    /\ SetLoc(p, [loc[p] EXCEPT !.n = len, !.i = 1])
    /\ Goto(p, "gb_scan")
    /\ UNCHANGED << arr, len, nextID, wHolder, readers, clock, req, ops >>

\* Mutant of GetByIDScan: the return of the exhausted range leaves the
\* read lock held (an RUnlock written before each return, but not here).
GetByIDScan_KeepsLock(p) ==
    /\ pc[p] = "gb_scan"
    /\ LET i == loc[p].i IN
         IF i > loc[p].n
         THEN /\ SetLoc(p, [loc[p] EXCEPT !.b = ZeroBookmark, !.found = FALSE])
              /\ Goto(p, "respond")
         ELSE IF arr[i].ID = req[p].id
         THEN /\ SetLoc(p, [loc[p] EXCEPT !.b = arr[i], !.found = TRUE])
              /\ Goto(p, "runlock")
         ELSE /\ SetLoc(p, [loc[p] EXCEPT !.i = i + 1])
              /\ UNCHANGED pc
    /\ UNCHANGED << arr, len, nextID, wHolder, readers, clock, req, ops >>

\* One iteration: b is a copy of the element; return b, true on a match,
\* and model.Bookmark{}, false when the range is exhausted.
GetByIDScan(p) ==
    /\ pc[p] = "gb_scan"
    /\ LET i == loc[p].i IN
         IF i > loc[p].n
         THEN /\ SetLoc(p, [loc[p] EXCEPT !.b = ZeroBookmark, !.found = FALSE])
              /\ Goto(p, "runlock")
         ELSE IF arr[i].ID = req[p].id
         THEN /\ SetLoc(p, [loc[p] EXCEPT !.b = arr[i], !.found = TRUE])
              /\ Goto(p, "runlock")
         ELSE /\ SetLoc(p, [loc[p] EXCEPT !.i = i + 1])
              /\ UNCHANGED pc
    /\ UNCHANGED << arr, len, nextID, wHolder, readers, clock, req, ops >>

\* ------------------------------------------------------- BookmarkStore.Create
\* Mutant of CreateNew: the id is taken from the number of records.
CreateNew_IDFromLen(p) ==
    /\ pc[p] = "c_new"
    /\ \E t \in {clock, clock + 1} :
          /\ clock' = t
          /\ SetLoc(p, [loc[p] EXCEPT !.b =
                Bookmark(Itoa(len + 1), req[p].body.Title, req[p].body.URL, t)])
    /\ Goto(p, "c_inc")
    /\ UNCHANGED << arr, len, nextID, wHolder, readers, req, ops >>

\* bookmark := model.Bookmark{ID: fmt.Sprintf("%d", s.nextID), Title: title,
\* URL: url, CreatedAt: time.Now()}.  The clock never runs backwards; only
\* the order of its readings matters, so a reading is the last one or the
\* next value.
CreateNew(p) ==
    /\ pc[p] = "c_new"
    /\ \E t \in {clock, clock + 1} :
          /\ clock' = t
          /\ SetLoc(p, [loc[p] EXCEPT !.b =
                Bookmark(Itoa(nextID), req[p].body.Title, req[p].body.URL, t)])
    /\ Goto(p, "c_inc")
    /\ UNCHANGED << arr, len, nextID, wHolder, readers, req, ops >>

\* s.nextID++
CreateInc(p) ==
    /\ pc[p] = "c_inc"
    /\ nextID' = nextID + 1
    /\ Goto(p, "c_append")
    /\ UNCHANGED << arr, len, wHolder, readers, clock, req, loc, ops >>

\* append(s, b) of the Go runtime: in place when the capacity allows it,
\* else into a new array of twice the capacity (or len+1 if that is more).
AppendOne(a, n, b) ==
    IF n < Len(a)
    THEN [a EXCEPT ![n + 1] = b]
    ELSE LET newcap == IF n + 1 > 2 * Len(a) THEN n + 1 ELSE 2 * Len(a)
         IN  SubSeq(a, 1, n) \o << b >> \o Zeros(newcap - (n + 1))

\* Mutant of CreateAppend: the new record is put in front,
\* append([]model.Bookmark{bookmark}, s.bookmarks...).
CreateAppend_InFront(p) ==
    /\ pc[p] = "c_append"
    /\ arr' = << loc[p].b >> \o Store
    /\ len' = len + 1
    /\ Goto(p, "unlock")
    /\ UNCHANGED << nextID, wHolder, readers, clock, req, loc, ops >>

\* Mutant of CreateAppend: the result of append is not assigned back.
CreateAppend_Discarded(p) ==
    /\ pc[p] = "c_append"
    /\ Goto(p, "unlock")
    /\ UNCHANGED << arr, len, nextID, wHolder, readers, clock, req, loc, ops >>

\* s.bookmarks = append(s.bookmarks, bookmark); return bookmark
CreateAppend(p) ==
    /\ pc[p] = "c_append"
    /\ arr' = AppendOne(arr, len, loc[p].b)
    /\ len' = len + 1
    /\ Goto(p, "unlock")
    /\ UNCHANGED << nextID, wHolder, readers, clock, req, loc, ops >>

\* ------------------------------------------------------- BookmarkStore.Update
\* for i, b := range s.bookmarks
UpdateRange(p) ==
    /\ pc[p] = "u_range"
    /\ SetLoc(p, [loc[p] EXCEPT !.n = len, !.i = 1])
    /\ Goto(p, "u_scan")
    /\ UNCHANGED << arr, len, nextID, wHolder, readers, clock, req, ops >>

\* One iteration: b is a copy of the element; if b.ID == id go on to the
\* assignments; when the range is exhausted return model.Bookmark{}, false.
UpdateScan(p) ==
    /\ pc[p] = "u_scan"
    /\ LET i == loc[p].i IN
         IF i > loc[p].n
         THEN /\ SetLoc(p, [loc[p] EXCEPT !.b = ZeroBookmark, !.found = FALSE])
              /\ Goto(p, "unlock")
         ELSE IF arr[i].ID = req[p].id
         THEN /\ SetLoc(p, [loc[p] EXCEPT !.b = arr[i]])
              /\ Goto(p, "u_title")
         ELSE /\ SetLoc(p, [loc[p] EXCEPT !.i = i + 1])
              /\ UNCHANGED pc
    /\ UNCHANGED << arr, len, nextID, wHolder, readers, clock, req, ops >>

\* Mutant of UpdateTitle: the title is assigned also when it is empty.
UpdateTitle_Unconditional(p) ==
    /\ pc[p] = "u_title"
    /\ arr' = [arr EXCEPT ![loc[p].i].Title = req[p].body.Title]
    /\ Goto(p, "u_url")
    /\ UNCHANGED << len, nextID, wHolder, readers, clock, req, loc, ops >>

\* if title != "" { s.bookmarks[i].Title = title }
UpdateTitle(p) ==
    /\ pc[p] = "u_title"
    /\ arr' = IF req[p].body.Title # ""
              THEN [arr EXCEPT ![loc[p].i].Title = req[p].body.Title]
              ELSE arr
    /\ Goto(p, "u_url")
    /\ UNCHANGED << len, nextID, wHolder, readers, clock, req, loc, ops >>

\* Mutant of UpdateURL: the record is replaced by a new one that carries
\* the id, the title and the url, and the zero time.
UpdateURL_ReplacesRecord(p) ==
    /\ pc[p] = "u_url"
    /\ arr' = IF req[p].body.URL # ""
              THEN [arr EXCEPT ![loc[p].i] =
                      Bookmark(@.ID, @.Title, req[p].body.URL, 0)]
              ELSE arr
    /\ Goto(p, "u_ret")
    /\ UNCHANGED << len, nextID, wHolder, readers, clock, req, loc, ops >>

\* if url != "" { s.bookmarks[i].URL = url }
UpdateURL(p) ==
    /\ pc[p] = "u_url"
    /\ arr' = IF req[p].body.URL # ""
              THEN [arr EXCEPT ![loc[p].i].URL = req[p].body.URL]
              ELSE arr
    /\ Goto(p, "u_ret")
    /\ UNCHANGED << len, nextID, wHolder, readers, clock, req, loc, ops >>

\* Mutant of UpdateReturn: the copy b of the range clause is returned.
UpdateReturn_RangeCopy(p) ==
    /\ pc[p] = "u_ret"
    /\ SetLoc(p, [loc[p] EXCEPT !.found = TRUE])
    /\ Goto(p, "unlock")
    /\ UNCHANGED << arr, len, nextID, wHolder, readers, clock, req, ops >>

\* return s.bookmarks[i], true
UpdateReturn(p) ==
    /\ pc[p] = "u_ret"
    /\ SetLoc(p, [loc[p] EXCEPT !.b = arr[loc[p].i], !.found = TRUE])
    /\ Goto(p, "unlock")
    /\ UNCHANGED << arr, len, nextID, wHolder, readers, clock, req, ops >>

\* ------------------------------------------------------- BookmarkStore.Delete
\* for i, b := range s.bookmarks
DeleteRange(p) ==
    /\ pc[p] = "d_range"
    /\ SetLoc(p, [loc[p] EXCEPT !.n = len, !.i = 1])
    /\ Goto(p, "d_scan")
    /\ UNCHANGED << arr, len, nextID, wHolder, readers, clock, req, ops >>

\* Mutant of DeleteScan: the exhausted range returns true.
DeleteScan_ReturnsTrue(p) ==
    /\ pc[p] = "d_scan"
    /\ LET i == loc[p].i IN
         IF i > loc[p].n
         THEN /\ SetLoc(p, [loc[p] EXCEPT !.found = TRUE])
              /\ Goto(p, "unlock")
         ELSE IF arr[i].ID = req[p].id
         THEN /\ SetLoc(p, [loc[p] EXCEPT !.n = i])
              /\ Goto(p, "d_shift")
         ELSE /\ SetLoc(p, [loc[p] EXCEPT !.i = i + 1])
              /\ UNCHANGED pc
    /\ UNCHANGED << arr, len, nextID, wHolder, readers, clock, req, ops >>

\* One iteration: if b.ID == id go on to the removal (n becomes the cursor
\* of the move); when the range is exhausted return false.
DeleteScan(p) ==
    /\ pc[p] = "d_scan"
    /\ LET i == loc[p].i IN
         IF i > loc[p].n
         THEN /\ SetLoc(p, [loc[p] EXCEPT !.found = FALSE])
              /\ Goto(p, "unlock")
         ELSE IF arr[i].ID = req[p].id
         THEN /\ SetLoc(p, [loc[p] EXCEPT !.n = i])
              /\ Goto(p, "d_shift")
         ELSE /\ SetLoc(p, [loc[p] EXCEPT !.i = i + 1])
              /\ UNCHANGED pc
    /\ UNCHANGED << arr, len, nextID, wHolder, readers, clock, req, ops >>

\* append(s.bookmarks[:i], s.bookmarks[i+1:]...): the capacity suffices, so
\* the elements after i move down by one within the backing array, front
\* to back; the old last slot keeps its contents.
DeleteShift(p) ==
    /\ pc[p] = "d_shift"
    /\ LET k == loc[p].n IN
         IF k < len
         THEN /\ arr' = [arr EXCEPT ![k] = arr[k + 1]]
              /\ SetLoc(p, [loc[p] EXCEPT !.n = k + 1])
              /\ UNCHANGED pc
         ELSE /\ Goto(p, "d_assign")
              /\ UNCHANGED << arr, loc >>
    /\ UNCHANGED << len, nextID, wHolder, readers, clock, req, ops >>

\* Mutant of DeleteAssign: the counter is taken back, s.nextID--, so that
\* the next Create fills the gap.
DeleteAssign_TakesBackID(p) ==
    /\ pc[p] = "d_assign"
    /\ len' = loc[p].i - 1 + (len - loc[p].i)
    /\ nextID' = nextID - 1
    /\ SetLoc(p, [loc[p] EXCEPT !.found = TRUE])
    /\ Goto(p, "unlock")
    /\ UNCHANGED << arr, wHolder, readers, clock, req, ops >>

\* Mutant of DeleteAssign: the slice is cut at i, s.bookmarks[:i].
DeleteAssign_Truncates(p) ==
    /\ pc[p] = "d_assign"
    /\ len' = loc[p].i - 1
    /\ SetLoc(p, [loc[p] EXCEPT !.found = TRUE])
    /\ Goto(p, "unlock")
    /\ UNCHANGED << arr, nextID, wHolder, readers, clock, req, ops >>

\* s.bookmarks = (the result of append: one element shorter); return true
DeleteAssign(p) ==
    /\ pc[p] = "d_assign"
    /\ len' = loc[p].i - 1 + (len - loc[p].i)
    /\ SetLoc(p, [loc[p] EXCEPT !.found = TRUE])
    /\ Goto(p, "unlock")
    /\ UNCHANGED << arr, nextID, wHolder, readers, clock, req, ops >>

\* ------------------------------------------------------ the responses
\* What the handler passes to c.JSON once the store method has returned
\* (or the binding has failed): the status and the gin.H body.
\* Mutant of NotFoundResponse: the success field is left out.
NotFoundResponse_NoSuccess ==
    [status |-> StatusNotFound, body |-> [error |-> "Bookmark not found"]]

NotFoundResponse ==
    [status |-> StatusNotFound,
     body |-> [success |-> FALSE, error |-> "Bookmark not found"]]

BadRequestResponse ==
    [status |-> StatusBadRequest,
     body |-> [success |-> FALSE, error |-> "Invalid request body",
               details |-> "err.Error()"]]

\* Mutant of Result: GetAll has returned s.bookmarks itself, so the
\* handler's slice shows the store's backing array.
Result_SharesStore(p) == [k \in 1 .. Len(loc[p].result) |-> arr[k]]

\* The elements of the slice bookmarks that handleGetBookmarks holds: a
\* slice of the array that make allocated in GetAll, which nothing else
\* refers to.
Result(p) == loc[p].result

\* What Recovery passes to c.JSON when a handler has panicked.
RecoveryResponse ==
    [status |-> StatusInternalServerError,
     body |-> [success |-> FALSE, error |-> "Internal server error",
               message |-> "Something went wrong"]]

HealthResponse ==
    [status |-> StatusOK,
     body |-> [status |-> "ok", service |-> "web-collector-backend"]]

PingResponse == [status |-> StatusOK, body |-> [message |-> "pong"]]

\* Mutant of Response: handleDeleteBookmark ignores what Delete returns.
Response_DeleteIgnoresFound(p) ==
    LET h == req[p].h  l == loc[p] IN
    CASE h = "GetBookmarks" ->
            [status |-> StatusOK, body |-> [success |-> TRUE, data |-> Result(p)]]
      [] h = "GetBookmark" ->
            IF ~l.found THEN NotFoundResponse
            ELSE [status |-> StatusOK, body |-> [success |-> TRUE, data |-> l.b]]
      [] h = "CreateBookmark" ->
            IF l.err THEN BadRequestResponse
            ELSE [status |-> StatusCreated, body |-> [success |-> TRUE, data |-> l.b]]
      [] h = "UpdateBookmark" ->
            IF l.err THEN BadRequestResponse
            ELSE IF ~l.found THEN NotFoundResponse
            ELSE [status |-> StatusOK, body |-> [success |-> TRUE, data |-> l.b]]
      [] h = "Health" -> HealthResponse
      [] h = "Ping" -> PingResponse
      [] h = "DeleteBookmark" ->
            [status |-> StatusOK,
             body |-> [success |-> TRUE, message |-> "Bookmark deleted"]]

Response(p) ==
    LET h == req[p].h  l == loc[p] IN
    CASE h = "GetBookmarks" ->
            [status |-> StatusOK, body |-> [success |-> TRUE, data |-> Result(p)]]
      [] h = "GetBookmark" ->
            IF ~l.found THEN NotFoundResponse
            ELSE [status |-> StatusOK, body |-> [success |-> TRUE, data |-> l.b]]
      [] h = "CreateBookmark" ->
            IF l.err THEN BadRequestResponse
            ELSE [status |-> StatusCreated, body |-> [success |-> TRUE, data |-> l.b]]
      [] h = "UpdateBookmark" ->
            IF l.err THEN BadRequestResponse
            ELSE IF ~l.found THEN NotFoundResponse
            ELSE [status |-> StatusOK, body |-> [success |-> TRUE, data |-> l.b]]
      [] h = "Health" -> HealthResponse
      [] h = "Ping" -> PingResponse
      [] h = "DeleteBookmark" ->
            IF ~l.found THEN NotFoundResponse
            ELSE [status |-> StatusOK,
                  body |-> [success |-> TRUE, message |-> "Bookmark deleted"]]

\* c.JSON(...): the response is written and the goroutine is free again.
Respond(p) ==
    /\ pc[p] = "respond"
    /\ Goto(p, "idle")
    /\ req' = [req EXCEPT ![p] = NoReq]
    /\ SetLoc(p, NoLoc)
    /\ UNCHANGED << arr, len, nextID, wHolder, readers, clock, ops >>

\* ------------------------------------------- the methods, run alone
\* What each store method does to the store st = [bk, nextID] and what it
\* returns when nothing runs beside it: the reference for atomicity.
FirstIndex(bk, id) ==
    IF \E k \in 1 .. Len(bk) : bk[k].ID = id
    THEN CHOOSE k \in 1 .. Len(bk) :
            /\ bk[k].ID = id
            /\ \A j \in 1 .. k - 1 : bk[j].ID # id
    ELSE 0

NoRet == [b |-> ZeroBookmark, found |-> FALSE, result |-> << >>]

SeqGetAll(st) == [st |-> st, ret |-> [NoRet EXCEPT !.result = st.bk]]

SeqGetByID(st, id) ==
    LET i == FirstIndex(st.bk, id) IN
    [st |-> st,
     ret |-> IF i = 0 THEN NoRet ELSE [NoRet EXCEPT !.b = st.bk[i], !.found = TRUE]]

SeqCreate(st, title, url, t) ==
    LET b == Bookmark(Itoa(st.nextID), title, url, t) IN
    [st |-> [bk |-> Append(st.bk, b), nextID |-> st.nextID + 1],
     ret |-> [NoRet EXCEPT !.b = b]]

SeqUpdate(st, id, title, url) ==
    LET i == FirstIndex(st.bk, id)
        b == [st.bk[i] EXCEPT !.Title = IF title # "" THEN title ELSE @,
                              !.URL = IF url # "" THEN url ELSE @]
    IN  IF i = 0 THEN [st |-> st, ret |-> NoRet]
        ELSE [st |-> [st EXCEPT !.bk[i] = b],
              ret |-> [NoRet EXCEPT !.b = b, !.found = TRUE]]

SeqDelete(st, id) ==
    LET i == FirstIndex(st.bk, id) IN
    IF i = 0 THEN [st |-> st, ret |-> NoRet]
    ELSE [st |-> [st EXCEPT !.bk = SubSeq(st.bk, 1, i - 1)
                                   \o SubSeq(st.bk, i + 1, Len(st.bk))],
          ret |-> [NoRet EXCEPT !.found = TRUE]]

\* The store method of request r, run alone on st at clock reading t.
SeqCall(st, r, t) ==
    CASE r.h = "GetBookmarks" -> SeqGetAll(st)
      [] r.h = "GetBookmark" -> SeqGetByID(st, r.id)
      [] r.h = "CreateBookmark" -> SeqCreate(st, r.body.Title, r.body.URL, t)
      [] r.h = "UpdateBookmark" -> SeqUpdate(st, r.id, r.body.Title, r.body.URL)
      [] r.h = "DeleteBookmark" -> SeqDelete(st, r.id)

\* ------------------------------------------------------ the observers
\* History variables: they record what has happened and steer nothing.
VARIABLES
    pre,        \* per goroutine: the store as it was when it got the lock
                \* (for a request the handler rejects: when it arrived)
    created,    \* the records Create has returned, in the order of the returns
    deleted,    \* the ids Delete has removed
    updated,    \* the ids among those of created that Update has since found
    peak,       \* the most Create requests that were in progress at once
    abs,        \* the store of the sequential execution
    exp,        \* per goroutine: what its method returns in that execution
    scen,       \* progress along the scenario of the spec's section 8
    last        \* the last store call that returned, what it returned and
                \* the store it left (recorded when requests come in a row)

vars == << arr, len, nextID, wHolder, readers, clock, pc, req, loc, ops,
           pre, created, deleted, updated, peak, abs, exp, scen, last >>

obsVars == << pre, created, deleted, updated, peak, abs, exp, scen, last >>

StoreState == [bk |-> Store, nextID |-> nextID]
NoSnap == [bk |-> << >>, nextID |-> 0]
NoLast == [r |-> NoReq, ret |-> NoRet, st |-> NoSnap]

\* The requests of the scenario, in order; the POST carries a non-empty
\* title and url.
ScenarioStep(k, r) ==
    CASE k = 1 -> r.h = "CreateBookmark" /\ BindCreate(r.body)
      [] k = 2 -> r.h = "GetBookmarks"
      [] k = 3 -> r.h = "DeleteBookmark" /\ r.id = "2"
      [] k = 4 -> r.h = "GetBookmark" /\ r.id = "2"
      [] OTHER -> FALSE

Init ==
    /\ ProgInit
    /\ pre = [p \in Procs |-> NoSnap]
    /\ created = << >>
    /\ deleted = {}
    /\ updated = {}
    /\ peak = 0
    /\ abs = [bk |-> SeedBookmarks(1, 2, 3), nextID |-> SeedNextID]
    /\ exp = [p \in Procs |-> NoRet]
    /\ scen = 0
    /\ last = NoLast

\* The steps of goroutine p that the observers watch.
Accepts(p) == pc[p] = "idle" /\ pc'[p] # "idle"
GetsLock(p) == pc[p] \in {"rlock", "lockwait"} /\ pc'[p] # pc[p]
Returns(p) == pc[p] \in {"runlock", "unlock"} /\ pc'[p] = "respond"
Responds(p) == pc[p] = "respond" /\ pc'[p] = "idle"
\* The handler answers without calling the store.
Rejects(p) == pc[p] = "idle" /\ pc'[p] = "respond"
\* The step at which the method takes effect in the sequential execution:
\* getting the lock, and for Create the reading of the clock.
TakesEffect(p) ==
    \/ GetsLock(p) /\ req[p].h # "CreateBookmark"
    \/ pc[p] = "c_new" /\ pc'[p] = "c_inc"

Observe(p) ==
    /\ pre' = IF GetsLock(p) \/ Rejects(p) THEN [pre EXCEPT ![p] = StoreState]
              ELSE IF Responds(p) THEN [pre EXCEPT ![p] = NoSnap]
              ELSE pre
    /\ created' = IF Returns(p) /\ req[p].h = "CreateBookmark"
                  THEN Append(created, loc[p].b)
                  ELSE created
    /\ deleted' = IF Returns(p) /\ req[p].h = "DeleteBookmark" /\ loc[p].found
                  THEN deleted \cup {req[p].id}
                  ELSE deleted
    /\ updated' = IF /\ Returns(p) /\ req[p].h = "UpdateBookmark" /\ loc[p].found
                     /\ \E k \in 1 .. Len(created) : created[k].ID = req[p].id
                  THEN updated \cup {req[p].id}
                  ELSE updated
    /\ peak' = LET n == Cardinality({q \in Procs : req'[q].h = "CreateBookmark"})
               IN  IF Accepts(p) /\ n > peak THEN n ELSE peak
    /\ abs' = IF TakesEffect(p) THEN SeqCall(abs, req[p], clock').st ELSE abs
    /\ exp' = IF TakesEffect(p)
              THEN [exp EXCEPT ![p] = SeqCall(abs, req[p], clock').ret]
              ELSE IF Responds(p) THEN [exp EXCEPT ![p] = NoRet]
              ELSE exp
    /\ scen' = IF Accepts(p)
               THEN IF scen >= 0 /\ Busy = {} /\ ScenarioStep(scen + 1, req'[p])
                    THEN scen ELSE -1
               ELSE IF Responds(p) /\ scen >= 0 THEN scen + 1
               ELSE scen

\* What the method of goroutine p returns.
Ret(p) == [b |-> loc[p].b, found |-> loc[p].found, result |-> loc[p].result]

ObserveLast(p) ==
    last' = IF Returns(p)
            THEN [r |-> req[p], ret |-> Ret(p), st |-> StoreState]
            ELSE last

\* ------------------------------------------------------- vocabulary
\* The labels inside the critical sections (until the deferred unlock has
\* run) and those at which a writer is part-way through its method.
ReadCS == {"ga_make", "ga_copy", "gb_range", "gb_scan", "runlock"}
WriteBody == {"c_new", "c_inc", "c_append", "u_range", "u_scan", "u_title",
              "u_url", "u_ret", "d_range", "d_scan", "d_shift", "d_assign"}
WriteCS == WriteBody \cup {"unlock"}

\* No mutation is part-way through.
Quiet == \A p \in Procs : pc[p] \notin WriteBody

\* No mutating method is inside its critical section.
NoWriter == \A p \in Procs : pc[p] \notin WriteCS

\* The method of goroutine p has finished and is about to return / has
\* returned to the handler.
Finished(p) == pc[p] \in {"runlock", "unlock"}
Returned(p) == pc[p] = "respond" /\ ~loc[p].err

NoDup(s) == \A i, j \in 1 .. Len(s) : i # j => s[i] # s[j]
IDSeq(s) == [k \in 1 .. Len(s) |-> s[k].ID]
Count(s, id) == Cardinality({k \in 1 .. Len(s) : s[k].ID = id})

\* ------------------------------------------------------------------ C1
\* C1: whenever no mutation is part-way through, no two records of the
\* collection share an id; and the ids Create has returned are pairwise
\* distinct and differ from the seed ids (so an id is never assigned twice,
\* also not after its record was deleted).
C1_UniqueIDs ==
    /\ Quiet => NoDup(IDSeq(Store))
    /\ NoDup(IDSeq(created))
    /\ \A k \in 1 .. Len(created) : created[k].ID \notin SeedIDs

\* A Create has returned after the record of an earlier Create was deleted.
C1_Witness ==
    /\ Len(created) = 2
    /\ created[1].ID \in deleted
    /\ created[2].ID \in IDsOf(Store)
    /\ Quiet

\* ------------------------------------------------------------------ C2
\* C2: once no Create is in progress and no writer holds the lock, the ids
\* the Creates returned are
\* pairwise distinct, each returned id that was not deleted since is the id
\* of exactly one record, every record is a seed or a created one, and as
\* long as nothing was deleted the collection holds exactly one new record
\* per Create.
CreatesInProgress ==
    {p \in Procs : req[p].h = "CreateBookmark" /\ pc[p] # "respond"}

C2_ConcurrentCreates ==
    (CreatesInProgress = {} /\ NoWriter) =>
        /\ NoDup(IDSeq(created))
        /\ \A k \in 1 .. Len(created) :
              created[k].ID \notin deleted => Count(Store, created[k].ID) = 1
        /\ IDsOf(Store) \subseteq SeedIDs \cup IDsOf(created)
        /\ deleted = {} => len = Cardinality(SeedIDs) + Len(created)

\* Two Creates were in progress at once and both have returned.
C2_Witness ==
    /\ peak = 2
    /\ Len(created) = 2
    /\ \A p \in Procs : pc[p] = "idle"
    /\ deleted = {}

\* ------------------------------------------------------------------ C3
\* C3: while a mutating method is inside its critical section no other
\* method, reading or mutating, is inside its own.
C3_MutualExclusion ==
    \A p, q \in Procs :
        (p # q /\ pc[p] \in WriteCS) => pc[q] \notin WriteCS \cup ReadCS

\* Two reading methods are inside at once.
C3_Witness ==
    \E p, q \in Procs : p # q /\ pc[p] \in ReadCS /\ pc[q] \in ReadCS

\* ------------------------------------------------------------------ C4
\* C4: every method returns what it returns in the sequential execution
\* that runs the methods in the order in which they took effect, and
\* whenever no mutation is part-way through the store is the store of that
\* execution.
C4_Atomic ==
    /\ \A p \in Procs :
          (Finished(p) \/ Returned(p)) =>
              /\ loc[p].b = exp[p].b
              /\ loc[p].found = exp[p].found
              /\ loc[p].result = exp[p].result
    /\ Quiet => StoreState = abs

\* GetAll has finished its copy while an Update of a record it copied,
\* which arrived in the meantime, waits for the lock.
C4_Witness ==
    \E p, q \in Procs :
        /\ req[p].h = "GetBookmarks" /\ pc[p] = "runlock"
        /\ req[q].h = "UpdateBookmark" /\ pc[q] = "lockwait"
        /\ req[q].id \in IDsOf(Store) /\ req[q].body.Title # ""
        /\ loc[p].result = Store

\* ------------------------------------------------------------------ C5
\* C5: when Update(id, title, url) of an id that was in the store has
\* finished, it reports found; the record with that id has the new title
\* if title is non-empty and its old title otherwise, and likewise its
\* url; its id and creation time are the old ones; the returned record is
\* the stored one; every other record, the order, the length and the next
\* id are as they were.
UpdateDone(p) == req[p].h = "UpdateBookmark" /\ pc[p] = "unlock"

C5_Update ==
    \A p \in Procs :
        (UpdateDone(p) /\ req[p].id \in IDsOf(pre[p].bk)) =>
            LET old == pre[p].bk
                t == req[p].body.Title
                u == req[p].body.URL
            IN  /\ loc[p].found
                /\ len = Len(old)
                /\ nextID = pre[p].nextID
                /\ \A k \in 1 .. Len(old) :
                      IF old[k].ID = req[p].id
                      THEN /\ Store[k].ID = old[k].ID
                           /\ Store[k].CreatedAt = old[k].CreatedAt
                           /\ Store[k].Title = (IF t # "" THEN t ELSE old[k].Title)
                           /\ Store[k].URL = (IF u # "" THEN u ELSE old[k].URL)
                           /\ loc[p].b = Store[k]
                      ELSE Store[k] = old[k]

\* Update("2", "", "U") has finished on a store that holds id "2": the
\* url is replaced and the title is the seed's.
C5_Witness ==
    \E p \in Procs :
        /\ UpdateDone(p) /\ req[p].id = "2"
        /\ req[p].body.Title = "" /\ req[p].body.URL = "U"
        /\ loc[p].found
        /\ loc[p].b.Title = "GitHub" /\ loc[p].b.URL = "U"

\* ------------------------------------------------------------------ C6
\* C6: when Update or Delete of an id that was not in the store has
\* finished, it reports not-found and the records, their order, the length
\* and the next id are as they were.
AbsentDone(p) ==
    /\ req[p].h \in {"UpdateBookmark", "DeleteBookmark"}
    /\ pc[p] = "unlock"
    /\ req[p].id \notin IDsOf(pre[p].bk)

C6_NotFound ==
    \A p \in Procs :
        AbsentDone(p) => (~loc[p].found /\ StoreState = pre[p])

\* A second Delete of "4" has finished after the first one removed it.
C6_Witness ==
    \E p \in Procs :
        /\ AbsentDone(p) /\ req[p].h = "DeleteBookmark" /\ req[p].id = "4"
        /\ "4" \in deleted

\* ------------------------------------------------------------------ C7
\* C7: when Delete of an id that was in the store has finished, it reports
\* true and the collection is the old one with the record of that id taken
\* out: one shorter, the rest with their values and in their order.
DeleteDone(p) == req[p].h = "DeleteBookmark" /\ pc[p] = "unlock"

C7_Delete ==
    \A p \in Procs :
        (DeleteDone(p) /\ req[p].id \in IDsOf(pre[p].bk)) =>
            LET old == pre[p].bk IN
            /\ loc[p].found
            /\ len = Len(old) - 1
            /\ nextID = pre[p].nextID
            /\ \E i \in 1 .. Len(old) :
                  /\ old[i].ID = req[p].id
                  /\ \A k \in 1 .. i - 1 : Store[k] = old[k]
                  /\ \A k \in i .. Len(old) - 1 : Store[k] = old[k + 1]

\* Delete("2") has finished on a store that held a created record after
\* the seeds, so two records have moved down.
C7_Witness ==
    \E p \in Procs :
        /\ DeleteDone(p) /\ req[p].id = "2" /\ loc[p].found
        /\ Len(pre[p].bk) = 4 /\ len = 3

\* ------------------------------------------------------------------ C8
\* C8: when Create(t, u) has finished, the collection is the old one with
\* the returned record appended, and that record carries t and u; and a
\* GetByID of an id that Create returned, and that no Update or Delete has
\* found since, reports found with the record as Create returned it.
CreateDone(p) == req[p].h = "CreateBookmark" /\ pc[p] = "unlock"
GetByIDDone(p) == req[p].h = "GetBookmark" /\ pc[p] = "runlock"

C8_Create ==
    \A p \in Procs :
        /\ CreateDone(p) =>
              /\ len = Len(pre[p].bk) + 1
              /\ SubSeq(Store, 1, len - 1) = pre[p].bk
              /\ Store[len] = loc[p].b
              /\ loc[p].b.Title = req[p].body.Title
              /\ loc[p].b.URL = req[p].body.URL
        /\ GetByIDDone(p) =>
              \A k \in 1 .. Len(created) :
                  ( /\ created[k].ID = req[p].id
                    /\ req[p].id \notin deleted \cup updated )
                  => (loc[p].found /\ loc[p].b = created[k])

\* GetByID("4") has finished after Create returned the record "4" and an
\* Update changed another record.
C8_Witness ==
    \E p \in Procs :
        /\ GetByIDDone(p) /\ req[p].id = "4" /\ loc[p].found
        /\ Len(created) = 1 /\ created[1].ID = "4"
        /\ len = 4 /\ Store[2].URL = "U"

\* ------------------------------------------------------------------ C9
\* C9: from the seeded store, with the requests served one after another:
\* the POST is answered 201 with id "4", the GET of the list then with 200
\* and 4 entries, the DELETE of "2" then with 200, the GET of "2" then
\* with 404.
C9_Scenario ==
    \A p \in Procs :
        (pc[p] = "respond" /\ scen >= 0) =>
            LET r == Response(p) IN
            CASE scen = 0 -> r.status = StatusCreated /\ r.body.data.ID = "4"
              [] scen = 1 -> r.status = StatusOK /\ Len(r.body.data) = 4
              [] scen = 2 -> r.status = StatusOK
              [] scen = 3 -> r.status = StatusNotFound
              [] OTHER -> FALSE

\* The four requests of the scenario have been answered.
C9_Witness == scen = 4

\* ----------------------------------------------------------------- C10
\* C10: a GET, a DELETE or a PUT with a valid body on :id is answered 404
\* with the error "Bookmark not found" when no record with that id was in
\* the store as the method got the lock, and 200 otherwise; and with a 404
\* the store is as it was.
ByID == {"GetBookmark", "UpdateBookmark", "DeleteBookmark"}

C10_NotFoundStatus ==
    \A p \in Procs :
        (req[p].h \in ByID /\ Returned(p)) =>
            LET r == Response(p) IN
            IF req[p].id \in IDsOf(pre[p].bk)
            THEN r.status = StatusOK /\ r.body.success
            ELSE /\ r.status = StatusNotFound
                 /\ r.body = [success |-> FALSE, error |-> "Bookmark not found"]
                 /\ StoreState = pre[p]

\* A PUT with a valid body on an absent id is about to be answered.
C10_Witness ==
    \E p \in Procs :
        /\ req[p].h = "UpdateBookmark" /\ Returned(p)
        /\ req[p].body.Title = "T"
        /\ req[p].id = "4" /\ "4" \notin IDsOf(Store)
        /\ Response(p).status = StatusNotFound

\* ----------------------------------------------------------------- C11
\* C11: a POST whose body is malformed or lacks a non-empty title or url
\* never enters Store.Create: it goes straight to its answer, which is a
\* 400, and the collection and the next id are as they were when it
\* arrived; a POST with both fields non-empty is answered 201 with the
\* new record, and the store is then the old one with that one record
\* appended and the next id one higher; so the next id counts the
\* accepted creates only.
C11_CreateValidation ==
    /\ \A p \in Procs :
          req[p].h = "CreateBookmark" =>
              IF BindCreate(req[p].body)
              THEN pc[p] = "respond" =>
                      /\ Response(p).status = StatusCreated
                      /\ Response(p).body.data = loc[p].b
                      /\ StoreState = [bk |-> Append(pre[p].bk, loc[p].b),
                                       nextID |-> pre[p].nextID + 1]
              ELSE /\ pc[p] = "respond"
                   /\ Response(p).status = StatusBadRequest
                   /\ ~Response(p).body.success
                   /\ StoreState = pre[p]
    /\ NoWriter => nextID = SeedNextID + Len(created)

\* A POST with a title and no url is about to be answered, after a POST
\* with both was served.
C11_Witness ==
    \E p \in Procs :
        /\ req[p].h = "CreateBookmark" /\ pc[p] = "respond"
        /\ req[p].body = Body(TRUE, "T", "")
        /\ Len(created) = 1 /\ nextID = SeedNextID + 1 /\ len = 4

\* ----------------------------------------------------------------- C12
\* The fields of the envelope of the spec's section 6.
Envelope == {"success", "data", "error", "message"}

\* C12 as stated: every answer carries the field success, a boolean, and
\* apart from it only data, error and message.
C12_EnvelopeEverywhere ==
    \A p \in Procs :
        pc[p] = "respond" =>
            LET b == Response(p).body IN
            /\ "success" \in DOMAIN b
            /\ b.success \in BOOLEAN
            /\ DOMAIN b \subseteq Envelope

\* C12, amended: every answer of the five bookmark routes, and the 500 of
\* Recovery, carries the field success, a boolean that is true exactly
\* with 200 and 201; apart from it only data, error and message occur,
\* and with a 400, and only then, details; GET /health answers with
\* exactly status and service, GET /api/v1/ping with exactly message,
\* neither with success.
C12_Envelope ==
    /\ \A p \in Procs :
          pc[p] = "respond" =>
              LET r == Response(p)  b == r.body IN
              IF req[p].h \in Probes
              THEN /\ r.status = StatusOK
                   /\ DOMAIN b = (IF req[p].h = "Health"
                                  THEN {"status", "service"} ELSE {"message"})
              ELSE /\ "success" \in DOMAIN b
                   /\ b.success \in BOOLEAN
                   /\ b.success <=> r.status \in {StatusOK, StatusCreated}
                   /\ DOMAIN b \subseteq Envelope \cup {"details"}
                   /\ "details" \in DOMAIN b <=> r.status = StatusBadRequest
    /\ RecoveryResponse.body.success \in BOOLEAN
    /\ DOMAIN RecoveryResponse.body \subseteq Envelope

\* A PUT with a malformed body is about to be answered with the 400 that
\* carries details.
C12_Witness ==
    \E p \in Procs :
        /\ pc[p] = "respond" /\ req[p].h = "UpdateBookmark" /\ loc[p].err
        /\ Response(p).status = StatusBadRequest
        /\ "details" \in DOMAIN Response(p).body

\* ----------------------------------------------------------------- C13
\* The call of goroutine p has finished and repeats the call before it.
Repeats(p) == Finished(p) /\ req[p] = last.r

\* C13 as stated: a GetAll, GetByID, Update or Delete that repeats the
\* call before it leaves the store as that call left it and returns what
\* that call returned.
C13_IdempotentButCreate ==
    \A p \in Procs :
        (Repeats(p) /\ req[p].h # "CreateBookmark") =>
            (StoreState = last.st /\ Ret(p) = last.ret)

\* C13, amended: a GetAll, GetByID or Update that repeats the call before
\* it leaves the store as that call left it and returns what it returned;
\* a repeated Delete leaves the store as the first left it and returns
\* not-found, which differs from the first's result when the first removed
\* a record; a repeated Create adds a second record under another id.
C13_Idempotent ==
    \A p \in Procs :
        Repeats(p) =>
            CASE req[p].h = "CreateBookmark" ->
                    /\ len = Len(last.st.bk) + 1
                    /\ nextID = last.st.nextID + 1
                    /\ loc[p].b.ID # last.ret.b.ID
              [] req[p].h = "DeleteBookmark" ->
                    /\ StoreState = last.st
                    /\ ~loc[p].found
              [] OTHER ->
                    /\ StoreState = last.st
                    /\ Ret(p) = last.ret

\* A second Update("2", "T", "U") in a row has finished; the first one
\* changed the record.
C13_Witness ==
    \E p \in Procs :
        /\ Repeats(p) /\ req[p].h = "UpdateBookmark" /\ req[p].id = "2"
        /\ req[p].body = Body(TRUE, "T", "U")
        /\ loc[p].found /\ loc[p].b.Title = "T"

\* ----------------------------------------------------------------- C14
\* Goroutine p holds the sequence GetAll returned to it.
HoldsList(p) == req[p].h = "GetBookmarks" /\ pc[p] \in {"runlock", "respond"}

C15_DeletedStaysGone ==
    /\ \A p \in Procs :
          (Finished(p) /\ req[p].h \in ByID /\ req[p].id \in deleted)
              => ~loc[p].found
    /\ NoWriter => IDsOf(Store) \cap deleted = {}

\* GetByID("4") has finished without finding it: "4" was created and
\* deleted, and a later Create has added "5".
C15_Witness ==
    \E p \in Procs :
        /\ Finished(p) /\ req[p].h = "GetBookmark" /\ req[p].id = "4"
        /\ ~loc[p].found
        /\ "4" \in deleted /\ Len(created) = 2
        /\ IDsOf(Store) = SeedIDs \cup {"5"}

\* ----------------------------------------------------------------- C16
\* The id and the creation time of the records of s, in order.
Stamps(s) == [k \in 1 .. Len(s) |-> << s[k].ID, s[k].CreatedAt >>]

\* C16: whenever no mutating method is inside its critical section, every
\* record Create has returned and no Delete has removed is in the
\* collection once, under the id and with the creation time Create gave
\* it, whatever was updated, created, deleted or read since; and all
\* through an Update the ids and creation times of all records, their
\* order and the next id are as they were when it got the lock.
C16_FixedFields ==
    /\ NoWriter =>
          \A k \in 1 .. Len(created) :
              created[k].ID \notin deleted =>
                  /\ Count(Store, created[k].ID) = 1
                  /\ \E j \in 1 .. len :
                        Stamps(Store)[j] = Stamps(created)[k]
    /\ \A p \in Procs :
          (req[p].h = "UpdateBookmark" /\ pc[p] \in WriteCS) =>
              /\ Stamps(Store) = Stamps(pre[p].bk)
              /\ nextID = pre[p].nextID

\* The record "4" that Create returned has since been found by an Update
\* and moved down by a Delete of "2" (the slot it left still shows it).
C16_Witness ==
    /\ NoWriter
    /\ Len(created) = 1 /\ created[1].ID = "4"
    /\ "4" \in updated /\ deleted = {"2"}
    /\ len = 3 /\ Store[3].ID = "4"
    /\ Len(arr) > 3 /\ arr[4].ID = "4"

\* ----------------------------------------------------------------- C17
\* Goroutine p has called a store method and waits for the lock.
Invoked(p) == pc[p] \in {"rlock", "lock"}

\* A store method is in progress in goroutine p.
InProgress(p) == pc[p] \in {"rlock", "lock", "lockwait"} \cup ReadCS \cup WriteCS

\* C17: if every goroutine that can take a step eventually takes one,
\* every store method that is called gets the lock and returns to its
\* handler with the lock released, whichever way it returns; and whenever
\* no store method is in progress the lock is free.
C17_Terminates ==
    /\ \A p \in Procs :
          Invoked(p) ~> (pc[p] = "respond" /\ p \notin readers /\ wHolder # p)
    /\ []((\A p \in Procs : ~InProgress(p)) => (wHolder = NoProc /\ readers = {}))

\* A writer has announced itself and waits for the reader inside, which
\* is about to return not-found.
C17_Witness ==
    \E p, q \in Procs :
        /\ pc[q] = "lockwait" /\ wHolder = q
        /\ readers = {p} /\ pc[p] = "gb_scan" /\ loc[p].i > loc[p].n

\* ----------------------------------------------------------------- C18
\* The number an id stands for: the n below the counter that
\* fmt.Sprintf("%d", n) prints as id.
IsIDBelow(id, m) == \E n \in 1 .. m - 1 : Itoa(n) = id
NumOf(id) == CHOOSE n \in 1 .. nextID - 1 : Itoa(n) = id

\* What C18 says of a single state.
C18_State ==
    /\ \A k \in 1 .. len : IsIDBelow(Store[k].ID, nextID)
    /\ Quiet => \A k \in 1 .. len - 1 : NumOf(Store[k].ID) < NumOf(Store[k + 1].ID)
    /\ nextID >= SeedNextID
    /\ \A p \in Procs : pre[p] # NoSnap => nextID >= pre[p].nextID

\* C18: the id of every record is the decimal form of a number below the
\* next id; whenever no mutation is part-way through, the numbers of the
\* ids increase strictly along the collection; the next id is never below
\* its initial value nor below what a request in progress found when it
\* got the lock, and no step lowers it.
C18_Ordered == []C18_State /\ [][nextID' >= nextID]_vars

\* After Create, Delete("2") and Create the collection holds 1, 3, 4, 5
\* and the next id is 6.
C18_Witness ==
    /\ Quiet
    /\ IDSeq(Store) = << "1", "3", "4", "5" >>
    /\ nextID = SeedNextID + 2

\* ----------------------------------------------------------------- C19
\* C19: a PUT whose body does not bind never enters Store.Update: it goes
\* straight to its answer, which is the 400 and not the 404, whether or
\* not a record with its id is in the store, and the collection and the
\* next id are as they were when it arrived.
C19_ValidateFirst ==
    \A p \in Procs :
        (req[p].h = "UpdateBookmark" /\ ~BindUpdate(req[p].body)) =>
            /\ pc[p] = "respond"
            /\ Response(p).status = StatusBadRequest
            /\ Response(p).body.error = "Invalid request body"
            /\ StoreState = pre[p]
            /\ exp[p] = NoRet

\* A PUT on "4" with a malformed body is about to be answered after "4"
\* was created and deleted.
C19_Witness ==
    \E p \in Procs :
        /\ req[p].h = "UpdateBookmark" /\ req[p].body = NoBody
        /\ pc[p] = "respond" /\ req[p].id = "4"
        /\ "4" \in deleted /\ "4" \notin IDsOf(Store)

\* ------------------------------------------------------------ Next
\* c.JSON touches nothing the goroutines share, so the step that writes a
\* response commutes with every step of the others: it is taken first.
\* The exception is the list of handleGetBookmarks: c.JSON reads the slice
\* that GetAll returned, and it does so while the other goroutines run.
Writing == {q \in Procs : pc[q] = "respond" /\ req[q].h # "GetBookmarks"}

\* Goroutine p takes the step A, and the observers record it.
Do(p, A) ==
    /\ Writing # {} => p \in Writing
    /\ A
    /\ Observe(p)
    /\ UNCHANGED last

Next ==
    \/ \E p \in Procs : Do(p, HandleGetBookmarks(p))
    \/ \E p \in Procs : Do(p, HandleGetBookmark(p))
    \/ \E p \in Procs : Do(p, HandleCreateBookmark(p))
    \/ \E p \in Procs : Do(p, HandleUpdateBookmark(p))
    \/ \E p \in Procs : Do(p, HandleDeleteBookmark(p))
    \/ \E p \in Procs : Do(p, HandleHealth(p))
    \/ \E p \in Procs : Do(p, HandlePing(p))
    \/ \E p \in Procs : Do(p, RLock(p))
    \/ \E p \in Procs : Do(p, LockPending(p))
    \/ \E p \in Procs : Do(p, LockAcquire(p))
    \/ \E p \in Procs : Do(p, RUnlock(p))
    \/ \E p \in Procs : Do(p, Unlock(p))
    \/ \E p \in Procs : Do(p, GetAllMake(p))
    \/ \E p \in Procs : Do(p, GetAllCopy(p))
    \/ \E p \in Procs : Do(p, GetByIDRange(p))
    \/ \E p \in Procs : Do(p, GetByIDScan(p))
    \/ \E p \in Procs : Do(p, CreateNew(p))
    \/ \E p \in Procs : Do(p, CreateInc(p))
    \/ \E p \in Procs : Do(p, CreateAppend(p))
    \/ \E p \in Procs : Do(p, UpdateRange(p))
    \/ \E p \in Procs : Do(p, UpdateScan(p))
    \/ \E p \in Procs : Do(p, UpdateTitle(p))
    \/ \E p \in Procs : Do(p, UpdateURL(p))
    \/ \E p \in Procs : Do(p, UpdateReturn(p))
    \/ \E p \in Procs : Do(p, DeleteRange(p))
    \/ \E p \in Procs : Do(p, DeleteScan(p))
    \/ \E p \in Procs : Do(p, DeleteShift(p))
    \/ \E p \in Procs : Do(p, DeleteAssign(p))
    \/ \E p \in Procs : Do(p, Respond(p))

Spec == Init /\ [][Next]_vars

\* ------------------------------------------------- requests in a row
\* The same program with the requests arriving one after another: a
\* request is accepted when every goroutine is idle.
DoSeq(p, A) ==
    /\ pc[p] = "idle" => Busy = {}
    /\ A
    /\ Observe(p)
    /\ ObserveLast(p)

NextSeq ==
    \/ \E p \in Procs : DoSeq(p, HandleGetBookmarks(p))
    \/ \E p \in Procs : DoSeq(p, HandleGetBookmark(p))
    \/ \E p \in Procs : DoSeq(p, HandleCreateBookmark(p))
    \/ \E p \in Procs : DoSeq(p, HandleUpdateBookmark(p))
    \/ \E p \in Procs : DoSeq(p, HandleDeleteBookmark(p))
    \/ \E p \in Procs : DoSeq(p, HandleHealth(p))
    \/ \E p \in Procs : DoSeq(p, HandlePing(p))
    \/ \E p \in Procs : DoSeq(p, RLock(p))
    \/ \E p \in Procs : DoSeq(p, LockPending(p))
    \/ \E p \in Procs : DoSeq(p, LockAcquire(p))
    \/ \E p \in Procs : DoSeq(p, RUnlock(p))
    \/ \E p \in Procs : DoSeq(p, Unlock(p))
    \/ \E p \in Procs : DoSeq(p, GetAllMake(p))
    \/ \E p \in Procs : DoSeq(p, GetAllCopy(p))
    \/ \E p \in Procs : DoSeq(p, GetByIDRange(p))
    \/ \E p \in Procs : DoSeq(p, GetByIDScan(p))
    \/ \E p \in Procs : DoSeq(p, CreateNew(p))
    \/ \E p \in Procs : DoSeq(p, CreateInc(p))
    \/ \E p \in Procs : DoSeq(p, CreateAppend(p))
    \/ \E p \in Procs : DoSeq(p, UpdateRange(p))
    \/ \E p \in Procs : DoSeq(p, UpdateScan(p))
    \/ \E p \in Procs : DoSeq(p, UpdateTitle(p))
    \/ \E p \in Procs : DoSeq(p, UpdateURL(p))
    \/ \E p \in Procs : DoSeq(p, UpdateReturn(p))
    \/ \E p \in Procs : DoSeq(p, DeleteRange(p))
    \/ \E p \in Procs : DoSeq(p, DeleteScan(p))
    \/ \E p \in Procs : DoSeq(p, DeleteShift(p))
    \/ \E p \in Procs : DoSeq(p, DeleteAssign(p))
    \/ \E p \in Procs : DoSeq(p, Respond(p))

SpecSeq == Init /\ [][NextSeq]_vars

\* ------------------------------------------------------- scheduling
\* The goroutines whose next step no other goroutine can notice or
\* prevent: one that writes its response, and one that holds the write
\* lock (the others wait for it or are not in the store).
Alone == Writing \cup {q \in Procs : pc[q] \in WriteCS}

\* Whether a method gets the lock and returns depends on the id it looks
\* for being there or not, and not on the title and the url it is given:
\* a request carries a body with both or no body at all, and an id that
\* is or was or will be in the store.
LiveRequest(r) == r.body \in {NoBody, Body(TRUE, "T", "U")} /\ r.id \in ReqIDs \cup {""}

\* The program alone; the history variables stand still.  A goroutine of
\* Alone moves first.
DoLive(p, A) ==
    /\ Alone # {} => p \in Alone
    /\ A
    /\ pc[p] = "idle" => LiveRequest(req'[p])
    /\ UNCHANGED obsVars

NextLive ==
    \/ \E p \in Procs : DoLive(p, HandleGetBookmarks(p))
    \/ \E p \in Procs : DoLive(p, HandleGetBookmark(p))
    \/ \E p \in Procs : DoLive(p, HandleCreateBookmark(p))
    \/ \E p \in Procs : DoLive(p, HandleUpdateBookmark(p))
    \/ \E p \in Procs : DoLive(p, HandleDeleteBookmark(p))
    \/ \E p \in Procs : DoLive(p, HandleHealth(p))
    \/ \E p \in Procs : DoLive(p, HandlePing(p))
    \/ \E p \in Procs : DoLive(p, RLock(p))
    \/ \E p \in Procs : DoLive(p, LockPending(p))
    \/ \E p \in Procs : DoLive(p, LockAcquire(p))
    \/ \E p \in Procs : DoLive(p, RUnlock(p))
    \/ \E p \in Procs : DoLive(p, Unlock(p))
    \/ \E p \in Procs : DoLive(p, GetAllMake(p))
    \/ \E p \in Procs : DoLive(p, GetAllCopy(p))
    \/ \E p \in Procs : DoLive(p, GetByIDRange(p))
    \/ \E p \in Procs : DoLive(p, GetByIDScan(p))
    \/ \E p \in Procs : DoLive(p, CreateNew(p))
    \/ \E p \in Procs : DoLive(p, CreateInc(p))
    \/ \E p \in Procs : DoLive(p, CreateAppend(p))
    \/ \E p \in Procs : DoLive(p, UpdateRange(p))
    \/ \E p \in Procs : DoLive(p, UpdateScan(p))
    \/ \E p \in Procs : DoLive(p, UpdateTitle(p))
    \/ \E p \in Procs : DoLive(p, UpdateURL(p))
    \/ \E p \in Procs : DoLive(p, UpdateReturn(p))
    \/ \E p \in Procs : DoLive(p, DeleteRange(p))
    \/ \E p \in Procs : DoLive(p, DeleteScan(p))
    \/ \E p \in Procs : DoLive(p, DeleteShift(p))
    \/ \E p \in Procs : DoLive(p, DeleteAssign(p))
    \/ \E p \in Procs : DoLive(p, Respond(p))

\* The steps of goroutine p once its request is accepted.
Run(p) ==
    \/ DoLive(p, RLock(p))
    \/ DoLive(p, LockPending(p))
    \/ DoLive(p, LockAcquire(p))
    \/ DoLive(p, RUnlock(p))
    \/ DoLive(p, Unlock(p))
    \/ DoLive(p, GetAllMake(p))
    \/ DoLive(p, GetAllCopy(p))
    \/ DoLive(p, GetByIDRange(p))
    \/ DoLive(p, GetByIDScan(p))
    \/ DoLive(p, CreateNew(p))
    \/ DoLive(p, CreateInc(p))
    \/ DoLive(p, CreateAppend(p))
    \/ DoLive(p, UpdateRange(p))
    \/ DoLive(p, UpdateScan(p))
    \/ DoLive(p, UpdateTitle(p))
    \/ DoLive(p, UpdateURL(p))
    \/ DoLive(p, UpdateReturn(p))
    \/ DoLive(p, DeleteRange(p))
    \/ DoLive(p, DeleteScan(p))
    \/ DoLive(p, DeleteShift(p))
    \/ DoLive(p, DeleteAssign(p))
    \/ DoLive(p, Respond(p))


\* The Go scheduler runs every goroutine that can run, and a goroutine
\* blocked in Lock or RLock runs again when the lock can be had.
SpecLive == Init /\ [][NextLive]_vars /\ \A p \in Procs : WF_vars(Run(p))

====
